---- MODULE Spec2Model ----
(***************************************************************************)
(* TCI Trucking driver-tracking server (src/server.js).                    *)
(*                                                                         *)
(* src/server.js holds two definitions of the server, one after the other  *)
(* (lines 1-177 and lines 178-349).  A deployment runs one of them; the    *)
(* variable `variant` says which.  The store is the MongoDB collection of  *)
(* Driver documents, reached through Mongoose: every store call is one     *)
(* atomic operation of the database, may fail (store unavailable), and     *)
(* casts its filter and update against driverSchema before it is sent.     *)
(* The only handler that makes two store calls is the seeding handler      *)
(* (deleteMany, then insertMany); it is modelled as two steps of a seeding    *)
(* request, so that other requests can run between them.                   *)
(***************************************************************************)
EXTENDS Integers, Sequences, FiniteSets, TLC

VARIABLES
    variant,   \* 1: first definition (lines 1-177), 2: second (lines 178-349)
    store,     \* the Driver collection: ObjectId -> document
    nextId,    \* the next ObjectId the driver generates
    now,       \* the server clock, read by `new Date()`
    pc,        \* position of each seeding request: "idle" or "deleted"
    requests,  \* number of requests admitted so far
    last,      \* the most recent handler step: request, response, store before it
    accepted,  \* per stored driver, the location submissions acknowledged so far
    lastDelete \* the seeding request whose deleteMany was the latest handler
               \* step, 0 when the latest handler step was another one

vars == <<variant, store, nextId, now, pc, requests, last, accepted, lastDelete>>

----------------------------------------------------------------------------
(* Bounds of the model *)

\* requests admitted in one behaviour
MaxRequests == 3
\* the server clock runs from 1 to MaxTime
MaxTime == 2
\* seeding requests that can be in flight at once
MaxSeeds == 2
SeedProcs == 1..MaxSeeds

----------------------------------------------------------------------------
(* JavaScript values of request bodies and document fields *)

Undefined == [t |-> "undefined", v |-> 0]
Null == [t |-> "null", v |-> 0]
Num(n) == [t |-> "number", v |-> n]
\* a string that is neither numeric nor a date, such as 'abc'
Text == [t |-> "string", v |-> 0]
\* an ISO-8601 string denoting the instant ms
IsoString(ms) == [t |-> "isostring", v |-> ms]
DateOf(ms) == [t |-> "date", v |-> ms]
InvalidDate == [t |-> "invaliddate", v |-> 0]

\* a string field that the request body does not carry
Absent == "<undefined>"

IsSet(x) == x.t \notin {"undefined", "null"}

\* new Date(x) for a value x of a JSON body
NewDate(x) ==
    CASE x.t = "number" -> DateOf(x.v)
      [] x.t = "isostring" -> DateOf(x.v)
      [] x.t = "null" -> DateOf(0)
      [] OTHER -> InvalidDate

\* x || 0
OrZero(x) ==
    IF x.t \in {"undefined", "null"} \/ x = Num(0) THEN Num(0) ELSE x

----------------------------------------------------------------------------
(* driverSchema: documents and the casts Mongoose applies *)

\* lastLocation of a document built by `new Driver(...)` or insertMany: the
\* nested path lastLocation.speed has default 0, the other paths are unset
DefaultLocation ==
    [lat |-> Undefined, lng |-> Undefined, timestamp |-> Undefined,
     speed |-> Num(0), accuracy |-> Undefined]

\* the document `new Driver({ name, phone })` builds from the schema defaults
NewDriver(name, phone) ==
    [name |-> name, phone |-> phone, isTracking |-> FALSE,
     lastLocation |-> DefaultLocation, trackingHistory |-> <<>>,
     consentGiven |-> FALSE, consentTimestamp |-> Undefined]

\* the paths of lastLocation and of an element of trackingHistory that the
\* handlers write (both are Number, but timestamp which is Date)
LocationPaths == {"lat", "lng", "timestamp", "speed", "accuracy"}

\* Mongoose's cast of value x to the schema type of location path f:
\* a Number path takes numbers, a Date path takes valid dates, and an
\* undefined or null value is left as it is; anything else is a CastError
CastOk(f, x) ==
    IF f = "timestamp"
    THEN x.t \in {"date", "undefined", "null"}
    ELSE x.t \in {"number", "undefined", "null"}

\* the cast of a location object: every path it carries must cast
CastLocationOk(loc) == \A f \in DOMAIN loc : CastOk(f, loc[f])

\* the stored location: the paths the update carries; a path it does not
\* carry is unset (no schema default is applied by an update)
PathOf(loc, f) == IF f \in DOMAIN loc THEN loc[f] ELSE Undefined

CastLocation(loc) ==
    [lat |-> PathOf(loc, "lat"), lng |-> PathOf(loc, "lng"),
     timestamp |-> PathOf(loc, "timestamp"), speed |-> PathOf(loc, "speed"),
     accuracy |-> PathOf(loc, "accuracy")]

\* the cast of the filter { _id: driverId }: ObjectIds are modelled by the
\* positive integers, strings that are no ObjectId by the others
IsObjectId(id) == id >= 1

\* the string '1', '2' used as _id by the fallback listing
PlaceholderId(k) == 0 - k

\* the `required: true` validator of a String path
RequiredOk(s) == s # Absent /\ s # ""

\* a document as the handlers return it, with its _id
WithId(id, d) ==
    [id |-> id, name |-> d.name, phone |-> d.phone, isTracking |-> d.isTracking,
     lastLocation |-> d.lastLocation, trackingHistory |-> d.trackingHistory,
     consentGiven |-> d.consentGiven, consentTimestamp |-> d.consentTimestamp]

\* deleteMany({}) leaves the empty collection
EmptyStore == [i \in {} |-> NewDriver("", "")]

----------------------------------------------------------------------------
(* The updates the handlers build *)

\* TrackingUpdate with a slip: a stop does not clear consentTimestamp
TrackingUpdate_KeepStamp(v, action, timestamp, t) ==
    IF action = "start_tracking"
    THEN [isTracking |-> TRUE, consentGiven |-> TRUE, consentTimestamp |-> DateOf(t)]
    ELSE [isTracking |-> FALSE, consentGiven |-> FALSE]

\* variants of TrackingUpdate with a plausible slip: consent not recorded,
\* the sentinel compared without regard to case, the consent stamped with
\* the client's timestamp
TrackingUpdate_NoConsent(v, action, timestamp, t) ==
    [isTracking |-> action = "start_tracking"]

TrackingUpdate_AnyCase(v, action, timestamp, t) ==
    LET start == action \in {"start_tracking", "START_TRACKING"}
    IN [isTracking |-> start, consentGiven |-> start,
        consentTimestamp |-> IF start THEN DateOf(t) ELSE Null]

TrackingUpdate_ClientTime(v, action, timestamp, t) ==
    [isTracking |-> action = "start_tracking",
     consentGiven |-> action = "start_tracking",
     consentTimestamp |->
         IF action = "start_tracking" THEN NewDate(timestamp) ELSE Null]

\* the update object of POST /api/driver/tracking; t is the server clock
TrackingUpdate(v, action, timestamp, t) ==
    IF v = 1
    THEN [isTracking |-> action = "start_tracking",
          consentGiven |-> action = "start_tracking",
          consentTimestamp |-> IF action = "start_tracking" THEN DateOf(t) ELSE Null]
    ELSE [isTracking |-> action = "start_tracking",
          consentGiven |-> action = "start_tracking",
          consentTimestamp |-> IF action = "start_tracking" THEN DateOf(t) ELSE Null,
          lastTrackingAction |-> [action |-> action, timestamp |-> NewDate(timestamp)]]

\* the location object that POST /api/driver/location writes to lastLocation
\* and pushes to trackingHistory, built from the request body b
LocationOf(v, b) ==
    IF v = 1
    THEN [lat |-> b.latitude, lng |-> b.longitude, accuracy |-> b.accuracy,
          timestamp |-> NewDate(b.timestamp), speed |-> OrZero(b.speed)]
    ELSE [lat |-> b.latitude, lng |-> b.longitude, accuracy |-> b.accuracy,
          timestamp |-> NewDate(b.timestamp)]

\* $set of the top-level keys of an update under the strict schema: a key
\* that is no path of driverSchema (lastTrackingAction) is dropped
ApplySet(d, upd) ==
    [d EXCEPT
       !.isTracking = IF "isTracking" \in DOMAIN upd THEN upd.isTracking ELSE @,
       !.consentGiven = IF "consentGiven" \in DOMAIN upd THEN upd.consentGiven ELSE @,
       !.consentTimestamp =
           IF "consentTimestamp" \in DOMAIN upd THEN upd.consentTimestamp ELSE @,
       !.lastLocation =
           IF "lastLocation" \in DOMAIN upd THEN CastLocation(upd.lastLocation) ELSE @]

\* ApplyPush with a slip: the history is set to the new element alone
ApplyPush_Replace(d, loc) ==
    [d EXCEPT !.trackingHistory = <<CastLocation(loc)>>]

\* $push of one element to trackingHistory
ApplyPush(d, loc) ==
    [d EXCEPT !.trackingHistory = Append(@, CastLocation(loc))]

----------------------------------------------------------------------------
(* Requests and responses *)

\* the fixed sample roster of the seeding handlers
sampleDrivers ==
    << [name |-> "John Smith", phone |-> "+1-555-0101"],
       [name |-> "Maria Garcia", phone |-> "+1-555-0102"],
       [name |-> "David Johnson", phone |-> "+1-555-0103"],
       [name |-> "Sarah Williams", phone |-> "+1-555-0104"] >>

\* the mock data GET /api/drivers of the first definition falls back to
mockDrivers ==
    << [id |-> PlaceholderId(1), name |-> "John Smith", phone |-> "+1-555-0101",
        isTracking |-> FALSE],
       [id |-> PlaceholderId(2), name |-> "Maria Garcia", phone |-> "+1-555-0102",
        isTracking |-> FALSE] >>

\* req.body: a field the request does not carry is undefined
Body(driverId, action, loc, name, phone) ==
    [driverId |-> driverId, action |-> action,
     latitude |-> loc.latitude, longitude |-> loc.longitude,
     accuracy |-> loc.accuracy, timestamp |-> loc.timestamp, speed |-> loc.speed,
     name |-> name, phone |-> phone]

NoLocation ==
    [latitude |-> Undefined, longitude |-> Undefined, accuracy |-> Undefined,
     timestamp |-> Undefined, speed |-> Undefined]

NoBody == Body(0, Absent, NoLocation, Absent, Absent)

\* the action and timestamp tracking requests carry: the sentinel, the
\* stop value, and values that differ from the sentinel by case, by
\* whitespace, or altogether; with and without a client timestamp
TrackingRequests ==
    { [action |-> "start_tracking", timestamp |-> Undefined],
      [action |-> "start_tracking", timestamp |-> Num(9)],
      [action |-> "stop_tracking", timestamp |-> Num(9)],
      [action |-> "", timestamp |-> Num(9)],
      [action |-> "garbage", timestamp |-> Undefined],
      [action |-> "START_TRACKING", timestamp |-> Num(9)],
      [action |-> "start_tracking ", timestamp |-> Undefined],
      [action |-> Absent, timestamp |-> Undefined] }

\* the location payloads requests carry
Payloads ==
    { \* complete and valid
      [latitude |-> Num(1), longitude |-> Num(2), accuracy |-> Num(5),
       timestamp |-> Num(9), speed |-> Num(3)],
      \* valid, an earlier client timestamp, no accuracy, no speed
      [latitude |-> Num(3), longitude |-> Num(4), accuracy |-> Undefined,
       timestamp |-> IsoString(8), speed |-> Undefined],
      \* latitude missing
      [latitude |-> Undefined, longitude |-> Num(2), accuracy |-> Undefined,
       timestamp |-> Num(9), speed |-> Undefined],
      \* latitude not numeric
      [latitude |-> Text, longitude |-> Num(2), accuracy |-> Undefined,
       timestamp |-> Num(9), speed |-> Undefined],
      \* longitude missing
      [latitude |-> Num(1), longitude |-> Undefined, accuracy |-> Undefined,
       timestamp |-> Num(9), speed |-> Undefined],
      \* timestamp missing
      [latitude |-> Num(1), longitude |-> Num(2), accuracy |-> Undefined,
       timestamp |-> Undefined, speed |-> Undefined],
      \* timestamp not a date
      [latitude |-> Num(1), longitude |-> Num(2), accuracy |-> Undefined,
       timestamp |-> Text, speed |-> Undefined],
      \* accuracy and speed negative
      [latitude |-> Num(1), longitude |-> Num(2), accuracy |-> Num(0 - 5),
       timestamp |-> Num(9), speed |-> Num(0 - 3)],
      \* accuracy not numeric
      [latitude |-> Num(1), longitude |-> Num(2), accuracy |-> Text,
       timestamp |-> Num(9), speed |-> Undefined],
      \* speed not numeric
      [latitude |-> Num(1), longitude |-> Num(2), accuracy |-> Undefined,
       timestamp |-> Num(9), speed |-> Text] }

\* the names and phones creation requests carry
Names == {Absent, "", "Ann Lee"}
Phones == {Absent, "", "+1-555-0199"}

RECURSIVE Descending(_)
\* the identifiers of S, greatest (newest) first
Descending(S) ==
    IF S = {} THEN <<>>
    ELSE LET m == CHOOSE i \in S : \A j \in S : j <= i
         IN <<m>> \o Descending(S \ {m})

RECURSIVE Ascending(_)
\* the identifiers of S in insertion order
Ascending(S) ==
    IF S = {} THEN <<>>
    ELSE LET m == CHOOSE i \in S : \A j \in S : i <= j
         IN <<m>> \o Ascending(S \ {m})

\* the documents of st in the order ids
Documents(st, ids) == [k \in 1..Len(ids) |-> WithId(ids[k], st[ids[k]])]

\* the identifiers requests address (every tracking or location request
\* carries a driverId): the oldest and the newest stored driver, an ObjectId
\* that matches no stored driver (the identifier of a deleted driver when
\* there is one, an identifier never stored otherwise) and a string that is
\* no ObjectId
Deleted == (1..(nextId - 1)) \ DOMAIN store

Targets ==
    {i \in DOMAIN store : (\A j \in DOMAIN store : i <= j) \/ (\A j \in DOMAIN store : j <= i)}
    \cup (IF Deleted = {} THEN {nextId} ELSE {i \in Deleted : \A j \in Deleted : i <= j})
    \cup {PlaceholderId(1)}

\* a response: HTTP status and JSON body
Response(status, error, success, drivers, count) ==
    [status |-> status, error |-> error, success |-> success,
     drivers |-> drivers, count |-> count]

\* res.status(500).json({ error: error.message }) of the catch blocks
Caught(message) == Response(500, message, FALSE, <<>>, 0)

\* res.status(404).json({ error: 'Driver not found' })
NotFound == Response(404, "Driver not found", FALSE, <<>>, 0)

\* the record of one handler step
Step(op, proc, body, failed, res) ==
    [op |-> op, proc |-> proc, body |-> body, failed |-> failed, res |-> res,
     pre |-> store, solo |-> (proc # 0 /\ lastDelete = proc)]

\* no response yet: the handler is suspended at its next store call
Pending == Response(0, "", FALSE, <<>>, 0)

\* no handler step is on record
NoStep ==
    [op |-> "none", proc |-> 0, body |-> NoBody, failed |-> FALSE, res |-> Pending,
     pre |-> EmptyStore, solo |-> FALSE]

----------------------------------------------------------------------------
(* The handlers.  `failed` says that the store call of the step fails. *)

Init ==
    /\ variant \in {1, 2}
    /\ store = EmptyStore
    /\ nextId = 1
    /\ now = 1
    /\ pc = [p \in SeedProcs |-> "idle"]
    /\ requests = 0
    /\ last = NoStep
    /\ accepted = [i \in {} |-> <<>>]
    /\ lastDelete = 0

\* A handler step runs to its response (res.json) before any other callback
\* runs.  The record of the step is kept for one state, in which the
\* response is on its way; Forget ends the request, and the next step of
\* any handler, and the next tick of the clock, come after it.
Quiet == last.op = "none"

Forget ==
    /\ ~Quiet
    /\ last' = NoStep
    /\ UNCHANGED <<variant, store, nextId, now, pc, requests, accepted, lastDelete>>

\* the server clock advances
Tick ==
    /\ Quiet
    /\ now < MaxTime
    /\ now' = now + 1
    /\ UNCHANGED <<variant, store, nextId, pc, requests, last, accepted, lastDelete>>

\* GET /api/drivers: the response of the listing, given the outcome of find
ListResponse(v, failed, st) ==
    IF v = 1
    THEN IF failed
         THEN Response(200, "", FALSE, mockDrivers, 0)
         ELSE Response(200, "", FALSE, Documents(st, Descending(DOMAIN st)), 0)
    ELSE IF failed
         THEN Caught("store unavailable")
         ELSE Response(200, "", FALSE, Documents(st, Ascending(DOMAIN st)), 0)

ListDrivers(failed) ==
    /\ Quiet
    /\ requests < MaxRequests
    /\ requests' = requests + 1
    /\ last' = Step("list", 0, NoBody, failed, ListResponse(variant, failed, store))
    /\ lastDelete' = 0
    /\ UNCHANGED <<variant, store, nextId, now, pc, accepted>>

\* TrackingStore with a slip: the filter is lost and the update reaches every
\* stored driver
TrackingStore_All(st, id, upd) ==
    IF id \in DOMAIN st THEN [i \in DOMAIN st |-> ApplySet(st[i], upd)] ELSE st

\* Driver.findOneAndUpdate({ _id: id }, update, { new: true }) of the
\* tracking handler: the collection afterwards
TrackingStore(st, id, upd) ==
    IF id \in DOMAIN st THEN [st EXCEPT ![id] = ApplySet(@, upd)] ELSE st

\* the response of the tracking handler; st2 is the collection after the call
TrackingResponse(id, failed, st2) ==
    IF ~IsObjectId(id) THEN Caught("Cast to ObjectId failed")
    ELSE IF failed THEN Caught("store unavailable")
    ELSE IF id \notin DOMAIN st2 THEN NotFound
    ELSE Response(200, "", TRUE, <<WithId(id, st2[id])>>, 0)

\* POST /api/driver/tracking
ToggleTracking(id, action, timestamp, failed) ==
    /\ Quiet
    /\ requests < MaxRequests
    /\ requests' = requests + 1
    /\ store' = IF IsObjectId(id) /\ ~failed
                THEN TrackingStore(store, id, TrackingUpdate(variant, action, timestamp, now))
                ELSE store
    /\ last' = Step("tracking", 0, Body(id, action, [NoLocation EXCEPT !.timestamp = timestamp],
                                     Absent, Absent),
                    failed, TrackingResponse(id, failed, store'))
    /\ lastDelete' = 0
    /\ UNCHANGED <<variant, nextId, now, pc, accepted>>


\* LocationStore with a slip: the document is written back whole with the
\* tracking fields at their defaults, where the code updates with $set and $push
LocationStore_Overwrite(st, id, loc) ==
    IF id \in DOMAIN st
    THEN [st EXCEPT ![id] =
             ApplyPush(ApplySet([@ EXCEPT !.isTracking = FALSE,
                                          !.consentGiven = FALSE,
                                          !.consentTimestamp = Undefined],
                                [lastLocation |-> loc]), loc)]
    ELSE st

\* Driver.findOneAndUpdate({ _id: id }, { lastLocation: loc, $push:
\* { trackingHistory: loc } }, { new: true }): the collection afterwards
LocationStore(st, id, loc) ==
    IF id \in DOMAIN st
    THEN [st EXCEPT ![id] = ApplyPush(ApplySet(@, [lastLocation |-> loc]), loc)]
    ELSE st

\* LocationResponse with a slip: a location is refused while the driver is
\* not tracking
LocationResponse_Gated(id, loc, failed, st) ==
    IF ~IsObjectId(id) THEN Caught("Cast to ObjectId failed")
    ELSE IF ~CastLocationOk(loc) THEN Caught("Cast failed")
    ELSE IF failed THEN Caught("store unavailable")
    ELSE IF id \notin DOMAIN st THEN NotFound
    ELSE IF ~st[id].isTracking THEN Response(403, "Driver is not tracking", FALSE, <<>>, 0)
    ELSE Response(200, "", TRUE, <<>>, 0)

\* LocationResponse with a slip: a failed store call is acknowledged
LocationResponse_Swallow(id, loc, failed, st) ==
    IF ~IsObjectId(id) THEN Caught("Cast to ObjectId failed")
    ELSE IF ~CastLocationOk(loc) THEN Caught("Cast failed")
    ELSE IF id \notin DOMAIN st /\ ~failed THEN NotFound
    ELSE Response(200, "", TRUE, <<>>, 0)

\* the response of the location handler; st is the collection before the call
LocationResponse(id, loc, failed, st) ==
    IF ~IsObjectId(id) THEN Caught("Cast to ObjectId failed")
    ELSE IF ~CastLocationOk(loc) THEN Caught("Cast failed")
    ELSE IF failed THEN Caught("store unavailable")
    ELSE IF id \notin DOMAIN st THEN NotFound
    ELSE Response(200, "", TRUE, <<>>, 0)

\* POST /api/driver/location
SubmitLocation(id, payload, failed) ==
    LET loc == LocationOf(variant, payload)
        res == LocationResponse(id, loc, failed, store)
    IN /\ Quiet
       /\ requests < MaxRequests
       /\ requests' = requests + 1
       /\ store' = IF IsObjectId(id) /\ CastLocationOk(loc) /\ ~failed
                   THEN LocationStore(store, id, loc)
                   ELSE store
       /\ last' = Step("location", 0, Body(id, Absent, payload, Absent, Absent),
                       failed, res)
       /\ accepted' = IF res.status = 200 /\ id \in DOMAIN accepted
                      THEN [accepted EXCEPT ![id] = Append(@, payload)]
                      ELSE accepted
       /\ lastDelete' = 0
       /\ UNCHANGED <<variant, nextId, now, pc>>

\* the response of the creation handler: validation of the new document,
\* then the outcome of save
CreateResponse(id, name, phone, failed) ==
    IF ~(RequiredOk(name) /\ RequiredOk(phone)) THEN Caught("Driver validation failed")
    ELSE IF failed THEN Caught("store unavailable")
    ELSE Response(200, "", FALSE, <<WithId(id, NewDriver(name, phone))>>, 0)

\* driver.save(): the collection afterwards
SaveStore(st, id, d) == (id :> d) @@ st

\* POST /api/drivers (second definition only)
CreateDriver(name, phone, failed) ==
    LET res == CreateResponse(nextId, name, phone, failed)
    IN /\ Quiet
       /\ variant = 2
       /\ requests < MaxRequests
       /\ requests' = requests + 1
       /\ store' = IF res.status = 200
                   THEN SaveStore(store, nextId, NewDriver(name, phone))
                   ELSE store
       /\ nextId' = IF res.status = 200 THEN nextId + 1 ELSE nextId
       /\ accepted' = IF res.status = 200 THEN (nextId :> <<>>) @@ accepted ELSE accepted
       /\ last' = Step("create", 0, Body(0, Absent, NoLocation, name, phone), failed, res)
       /\ lastDelete' = 0
       /\ UNCHANGED <<variant, now, pc>>

\* deleteMany with a slip: nothing is deleted
DeleteManyStore_Keep(st) == st

\* Driver.deleteMany({}): the collection afterwards
DeleteManyStore(st) == EmptyStore

\* Driver.insertMany(docs): the collection afterwards, the documents taking
\* the identifiers first, first + 1, ...
InsertManyStore(st, first, docs) ==
    [i \in first..(first + Len(docs) - 1) |->
        NewDriver(docs[i - first + 1].name, docs[i - first + 1].phone)] @@ st

\* res.json({ success: true, drivers: drivers.length })
SeedResponse(docs) == Response(200, "", TRUE, <<>>, Len(docs))

\* POST /api/init-drivers, POST /api/init-sample-data, up to
\* `await Driver.deleteMany({})`; a new seeding request takes the first
\* free position
SeedDelete(p, failed) ==
    /\ Quiet
    /\ pc[p] = "idle"
    /\ \A q \in SeedProcs : q < p => pc[q] # "idle"
    /\ requests < MaxRequests
    /\ requests' = requests + 1
    /\ IF failed
       THEN /\ last' = Step("seed_delete", p, NoBody, TRUE, Caught("store unavailable"))
            /\ lastDelete' = 0
            /\ UNCHANGED <<store, pc, accepted>>
       ELSE /\ store' = DeleteManyStore(store)
            /\ lastDelete' = p
            /\ accepted' = [i \in {} |-> <<>>]
            /\ pc' = [pc EXCEPT ![p] = "deleted"]
            /\ last' = Step("seed_delete", p, NoBody, FALSE, Pending)
    /\ UNCHANGED <<variant, nextId, now>>

\* the seeding handlers from `await Driver.insertMany(sampleDrivers)` on
SeedInsert(p, failed) ==
    /\ Quiet
    /\ pc[p] = "deleted"
    /\ pc' = [pc EXCEPT ![p] = "idle"]
    /\ IF failed
       THEN /\ last' = Step("seed_insert", p, NoBody, TRUE, Caught("store unavailable"))
            /\ UNCHANGED <<store, nextId, accepted>>
       ELSE /\ store' = InsertManyStore(store, nextId, sampleDrivers)
            /\ nextId' = nextId + Len(sampleDrivers)
            /\ accepted' = [i \in nextId..(nextId + Len(sampleDrivers) - 1) |-> <<>>]
                              @@ accepted
            /\ last' = Step("seed_insert", p, NoBody, FALSE, SeedResponse(sampleDrivers))
    /\ lastDelete' = 0
    /\ UNCHANGED <<variant, now, requests>>

Next ==
    \/ Forget
    \/ Tick
    \/ \E failed \in BOOLEAN : ListDrivers(failed)
    \/ \E id \in Targets, r \in TrackingRequests, failed \in BOOLEAN :
          ToggleTracking(id, r.action, r.timestamp, failed)
    \/ \E id \in Targets, payload \in Payloads, failed \in BOOLEAN :
          SubmitLocation(id, payload, failed)
    \/ \E name \in Names, phone \in Phones, failed \in BOOLEAN :
          CreateDriver(name, phone, failed)
    \/ \E p \in SeedProcs, failed \in BOOLEAN : SeedDelete(p, failed)
    \/ \E p \in SeedProcs, failed \in BOOLEAN : SeedInsert(p, failed)

Spec == Init /\ [][Next]_vars

----------------------------------------------------------------------------
(* Properties.  `last` is the handler step just taken: last.pre is the     *)
(* collection before it, store the collection after it.                    *)

\* the driver the recorded step addresses
Target == last.body.driverId

\* the recorded step is a request of kind op whose store call went through
\* and whose driverId names a driver stored before the step
OnStored(op) ==
    /\ last.op = op
    /\ ~last.failed
    /\ Target \in DOMAIN last.pre

\* a consentTimestamp that is set holds a date
Stamped(d) == d.consentTimestamp.t = "date"

\* C1: every stored driver that is tracking has given consent and has a
\* consentTimestamp that is set
C1_TrackingImpliesConsent ==
    \A i \in DOMAIN store :
        store[i].isTracking => store[i].consentGiven /\ Stamped(store[i])

\* a start has just made a stored driver Active
C1_Witness ==
    /\ OnStored("tracking")
    /\ last.body.action = "start_tracking"
    /\ ~last.pre[Target].isTracking
    /\ store[Target].isTracking

\* C2: a toggle of a stored driver whose action is not exactly
\* 'start_tracking' leaves the driver Idle with consent cleared, whatever
\* its state before, and answers with that driver
C2_FailSafeStop ==
    (OnStored("tracking") /\ last.body.action # "start_tracking") =>
        /\ Target \in DOMAIN store
        /\ ~store[Target].isTracking
        /\ ~store[Target].consentGiven
        /\ ~IsSet(store[Target].consentTimestamp)
        /\ last.res.status = 200
        /\ last.res.drivers = <<WithId(Target, store[Target])>>

\* an Active driver has just been sent an action that differs from the
\* sentinel by case only
C2_Witness ==
    /\ OnStored("tracking")
    /\ last.body.action = "START_TRACKING"
    /\ last.pre[Target].isTracking
    /\ ~store[Target].isTracking

\* C3: a start on a stored driver answers isTracking and consentGiven true,
\* stamps consentTimestamp with the server clock at the call (so a second
\* start in a row re-stamps it, never to an earlier time, and never to the
\* client's timestamp), and leaves lastLocation and trackingHistory as
\* they were
C3_IdempotentStart ==
    (OnStored("tracking") /\ last.body.action = "start_tracking") =>
        /\ last.res.status = 200
        /\ Len(last.res.drivers) = 1
        /\ last.res.drivers[1].isTracking
        /\ last.res.drivers[1].consentGiven
        /\ last.res.drivers[1].consentTimestamp = DateOf(now)
        /\ store[Target] = [last.pre[Target] EXCEPT
                               !.isTracking = TRUE, !.consentGiven = TRUE,
                               !.consentTimestamp = DateOf(now)]
        /\ (Stamped(last.pre[Target]) =>
               last.pre[Target].consentTimestamp.v <= store[Target].consentTimestamp.v)

\* a second start on a driver that a start made Active at an earlier time,
\* carrying a client timestamp
C3_Witness ==
    /\ OnStored("tracking")
    /\ last.body.action = "start_tracking"
    /\ last.body.timestamp = Num(9)
    /\ last.pre[Target].isTracking
    /\ last.pre[Target].consentTimestamp.v < now
    /\ store[Target].consentTimestamp = DateOf(now)

\* C4: a toggle or a location update whose driverId matches no stored
\* driver answers 404 'Driver not found' and leaves the collection as it was
C4_UnknownDriverNotFound ==
    (/\ last.op \in {"tracking", "location"}
     /\ ~last.failed
     /\ Target \notin DOMAIN last.pre) =>
        /\ last.res.status = 404
        /\ last.res.error = "Driver not found"
        /\ store = last.pre


\* the Location the specification's validate() makes of a payload: speed 0
\* when the payload carries none
NormalizedLocation(p) ==
    [lat |-> p.latitude, lng |-> p.longitude, timestamp |-> NewDate(p.timestamp),
     speed |-> IF IsSet(p.speed) THEN p.speed ELSE Num(0), accuracy |-> p.accuracy]

\* C5: for every stored driver, trackingHistory holds the normalized
\* locations of the submissions acknowledged since its creation, one each,
\* in arrival order, and lastLocation is the last of them
C5_HistoryMonotone ==
    \A i \in DOMAIN store :
        LET h == store[i].trackingHistory
            a == accepted[i]
        IN /\ Len(h) = Len(a)
           /\ \A k \in 1..Len(a) : h[k] = NormalizedLocation(a[k])
           /\ (Len(a) > 0 => store[i].lastLocation = NormalizedLocation(a[Len(a)]))

\* C6: a location update of a stored driver whose latitude or longitude is
\* missing or not a number is answered with an error and leaves
\* trackingHistory and lastLocation as they were
C6_ValidationRejection ==
    (/\ OnStored("location")
     /\ (last.body.latitude.t # "number" \/ last.body.longitude.t # "number")) =>
        /\ last.res.status # 200
        /\ store[Target].trackingHistory = last.pre[Target].trackingHistory
        /\ store[Target].lastLocation = last.pre[Target].lastLocation

\* C7: a seeding request whose insertMany succeeds right after its own
\* deleteMany, no other handler step between them, leaves exactly the four
\* sample drivers and answers count 4
C7_SeedReplace ==
    (last.op = "seed_insert" /\ last.res.status = 200 /\ last.solo) =>
        /\ Cardinality(DOMAIN store) = 4
        /\ \A k \in 1..4 :
              \E i \in DOMAIN store :
                  /\ store[i].name = sampleDrivers[k].name
                  /\ store[i].phone = sampleDrivers[k].phone
        /\ {store[i].name : i \in DOMAIN store} =
              {"John Smith", "Maria Garcia", "David Johnson", "Sarah Williams"}
        /\ last.res.success
        /\ last.res.count = 4

\* a seeding request has just replaced a collection of five drivers, the
\* roster of an earlier seeding and a created driver
C7_Witness ==
    /\ last.op = "seed_insert"
    /\ last.res.status = 200
    /\ last.solo
    /\ nextId = 10
    /\ DOMAIN store = 6..9

\* C8: a listing whose find fails answers 200 with a non-empty sequence of
\* placeholder drivers, and leaves the collection as it was
C8_DegradedListing ==
    (last.op = "list" /\ last.failed) =>
        /\ last.res.status = 200
        /\ Len(last.res.drivers) > 0
        /\ store = last.pre

\* C9: a mutating request whose store call fails answers with an error, no
\* acknowledgement and no data; a failed toggle, location update or creation
\* leaves the collection as it was
C9_WriteFailureReported ==
    (/\ last.op \in {"tracking", "location", "create", "seed_delete", "seed_insert"}
     /\ last.failed) =>
        /\ last.res.status = 500
        /\ last.res.error # ""
        /\ ~last.res.success
        /\ last.res.drivers = <<>>
        /\ (last.op \in {"tracking", "location", "create"} => store = last.pre)

\* the store call of a valid location update of a stored driver has failed
C9_Witness ==
    /\ last.op = "location"
    /\ last.failed
    /\ Target \in DOMAIN store
    /\ CastLocationOk(LocationOf(variant, last.body))
    /\ last.res.status = 500

\* a driver as the specification creates it: Idle, no consent, no
\* lastLocation, empty history
FreshDriver(name, phone) ==
    [name |-> name, phone |-> phone, isTracking |-> FALSE,
     lastLocation |-> [lat |-> Undefined, lng |-> Undefined, timestamp |-> Undefined,
                       speed |-> Undefined, accuracy |-> Undefined],
     trackingHistory |-> <<>>, consentGiven |-> FALSE, consentTimestamp |-> Undefined]

\* C10: a creation with a missing or empty name or phone is answered with
\* an error and adds no driver; otherwise it adds exactly one driver, under
\* an identifier no other stored driver has, Idle, without consent,
\* consentTimestamp or lastLocation, with an empty history, and leaves the
\* other drivers as they were
C10_CreateDriver ==
    (last.op = "create" /\ ~last.failed) =>
        IF last.body.name \in {Absent, ""} \/ last.body.phone \in {Absent, ""}
        THEN last.res.status # 200 /\ store = last.pre
        ELSE /\ last.res.status = 200
             /\ \E i \in DOMAIN store \ DOMAIN last.pre :
                   /\ DOMAIN store = DOMAIN last.pre \cup {i}
                   /\ store[i] = FreshDriver(last.body.name, last.body.phone)
             /\ \A j \in DOMAIN last.pre : store[j] = last.pre[j]

\* C11: for every stored driver, trackingHistory is empty exactly when
\* lastLocation is unset, and when trackingHistory is not empty lastLocation
\* is its last element, field for field
C11_SnapshotMatchesHistory ==
    \A i \in DOMAIN store :
        LET h == store[i].trackingHistory
            l == store[i].lastLocation
        IN /\ (h = <<>>) <=> (\A f \in LocationPaths : ~IsSet(l[f]))
           /\ (h # <<>> => l = h[Len(h)])

\* C12: tracking and location requests on one driver take effect one at a
\* time: every acknowledged location update is appended exactly once (no
\* append is lost), a tracking request leaves lastLocation and
\* trackingHistory as they were, and a location request leaves isTracking,
\* consentGiven and consentTimestamp as they were
C12_PerDriverLinearizable ==
    /\ \A i \in DOMAIN store :
           Len(store[i].trackingHistory) = Len(accepted[i])
    /\ (last.op = "tracking" /\ Target \in DOMAIN last.pre)
           => /\ Target \in DOMAIN store
              /\ store[Target].lastLocation = last.pre[Target].lastLocation
              /\ store[Target].trackingHistory = last.pre[Target].trackingHistory
    /\ (last.op = "location" /\ Target \in DOMAIN last.pre)
           => /\ Target \in DOMAIN store
              /\ store[Target].isTracking = last.pre[Target].isTracking
              /\ store[Target].consentGiven = last.pre[Target].consentGiven
              /\ store[Target].consentTimestamp = last.pre[Target].consentTimestamp
              /\ (last.res.status # 200 => store[Target] = last.pre[Target])
              /\ (last.res.status = 200
                     => /\ Len(store[Target].trackingHistory)
                              = Len(last.pre[Target].trackingHistory) + 1
                        /\ store[Target].lastLocation
                              = CastLocation(LocationOf(variant, last.body)))

\* a location update acknowledged for a driver whose tracking was started by
\* an earlier request
C12_Witness ==
    /\ last.op = "location"
    /\ last.res.status = 200
    /\ Target \in DOMAIN last.pre
    /\ last.pre[Target].isTracking
    /\ Stamped(store[Target])
    /\ Len(store[Target].trackingHistory) = 1

\* the collection st holds the sample roster and nothing else
IsRoster(st) ==
    /\ Cardinality(DOMAIN st) = Len(sampleDrivers)
    /\ \A k \in DOMAIN sampleDrivers :
          \E i \in DOMAIN st :
              /\ st[i].name = sampleDrivers[k].name
              /\ st[i].phone = sampleDrivers[k].phone

\* C13: no request is observable half-applied: while a seeding request is
\* between its store calls, the collection a listing would read is either
\* the complete collection from before the request or the complete roster
C13_NoHalfApplied ==
    (last.op = "seed_delete" /\ ~last.failed) =>
        \/ store = last.pre
        \/ IsRoster(store)

\* C14: once two overlapping seeding requests have both finished, the
\* collection holds each roster driver exactly once (four drivers from the
\* roster, never none and never eight) and the request reports a count of 4
C14_ConcurrentSeeds ==
    (/\ last.op = "seed_insert"
     /\ last.res.status = 200
     /\ \A p \in SeedProcs : pc[p] = "idle") =>
        /\ \A k \in DOMAIN sampleDrivers :
              Cardinality({i \in DOMAIN store :
                              /\ store[i].name = sampleDrivers[k].name
                              /\ store[i].phone = sampleDrivers[k].phone}) = 1
        /\ last.res.count = Len(sampleDrivers)

ValidPayload(b) ==
    /\ b.latitude.t = "number"
    /\ b.longitude.t = "number"
    /\ b.timestamp.t \in {"number", "isostring"}
    /\ \A x \in {b.accuracy, b.speed} :
          ~IsSet(x) \/ (x.t = "number" /\ x.v >= 0)

ExtendsByAtMostOne(g, h) ==
    \/ h = g
    \/ /\ Len(h) = Len(g) + 1
       /\ SubSeq(h, 1, Len(g)) = g

\* C17: every step leaves the trackingHistory of a driver that stays stored
\* as it was or adds exactly one entry at its end; no entry is removed,
\* reordered or rewritten
C17_AppendOnlyHistory ==
    [][\A i \in DOMAIN store \cap DOMAIN store' :
          ExtendsByAtMostOne(store[i].trackingHistory, store'[i].trackingHistory)]_vars

\* a second, different entry has just been appended behind the first one
C17_Witness ==
    /\ OnStored("location")
    /\ last.res.status = 200
    /\ Len(store[Target].trackingHistory) = 2
    /\ store[Target].trackingHistory[1] = last.pre[Target].trackingHistory[1]
    /\ store[Target].trackingHistory[2] # store[Target].trackingHistory[1]

\* C18: for a location update addressed to a stored driver: a payload with
\* no timestamp is acknowledged and stored with the server's time of
\* receipt; a timestamp that does not parse, and an accuracy or speed that
\* is not a number or is negative, are refused and change nothing; and an
\* acknowledged payload with no speed is stored with speed 0 both in
\* lastLocation and in the appended history entry
C18_TimestampAndOptionalFields ==
    OnStored("location") =>
        LET b == last.body
            d == store[Target]
            h == d.trackingHistory
        IN /\ (~IsSet(b.timestamp)
                  /\ ValidPayload([latitude |-> b.latitude, longitude |-> b.longitude,
                                   accuracy |-> b.accuracy, speed |-> b.speed,
                                   timestamp |-> Num(now)]))
                 => /\ last.res.status = 200
                    /\ d.lastLocation.timestamp = DateOf(now)
           /\ (IsSet(b.timestamp) /\ b.timestamp.t \notin {"number", "isostring"})
                 => /\ last.res.status # 200
                    /\ store = last.pre
           /\ (\E x \in {b.accuracy, b.speed} :
                  IsSet(x) /\ ~(x.t = "number" /\ x.v >= 0))
                 => /\ last.res.status # 200
                    /\ store = last.pre
           /\ (last.res.status = 200 /\ ~IsSet(b.speed))
                 => /\ d.lastLocation.speed = Num(0)
                    /\ h # <<>>
                    /\ h[Len(h)].speed = Num(0)

\* C19: every stored driver has consentGiven equal to isTracking, and a
\* consentTimestamp exactly when consentGiven is true
C19_ConsentConsistency ==
    \A i \in DOMAIN store :
        /\ store[i].consentGiven = store[i].isTracking
        /\ IsSet(store[i].consentTimestamp) <=> store[i].consentGiven

\* a driver that was tracking with a stamped consent has just been stopped,
\* and its consentTimestamp is cleared
C19_Witness ==
    /\ OnStored("tracking")
    /\ last.body.action = "stop_tracking"
    /\ last.pre[Target].consentGiven
    /\ Stamped(last.pre[Target])
    /\ ~store[Target].consentGiven
    /\ store[Target].consentTimestamp = Null

\* C20: right after a seeding request that ran alone, every stored driver
\* is Idle, without consent, consentTimestamp or lastLocation, and with an
\* empty history, and none carries an identifier used before the seeding; a
\* tracking request or a valid location update that names an identifier
\* from before a seeding is answered not-found
C20_SeedResetsTracking ==
    /\ (last.op = "seed_insert" /\ last.res.status = 200 /\ last.solo) =>
          \A i \in DOMAIN store :
              /\ store[i] = FreshDriver(store[i].name, store[i].phone)
              /\ i >= nextId - Len(sampleDrivers)
    /\ (/\ last.op \in {"tracking", "location"}
        /\ ~last.failed
        /\ Target \in (1..(nextId - 1)) \ DOMAIN last.pre
        /\ last.op = "location" => ValidPayload(last.body)) =>
          /\ last.res.status = 404
          /\ store = last.pre

====
